---- MODULE Spec2Model ----
(***************************************************************************)
(* Model of berryons/server (server.go): the gRPC server bootstrapper.     *)
(*                                                                         *)
(* One process with three tasks: the main task (New, then any number of    *)
(* RegisterHttpProxyServer calls, then Run, which blocks in Serve), the    *)
(* shutdown goroutine postDestroy, and the optional gateway goroutine      *)
(* runHttpProxy.  The environment delivers catchable termination signals   *)
(* (SIGINT, SIGTERM) and decides whether a bind succeeds.                  *)
(*                                                                         *)
(* Strings that the code only formats or compares as a whole are TLA+      *)
(* strings; the transport kind, which the code lower-cases and folds, is a *)
(* sequence of one-character strings so that ToLower and EqualFold are     *)
(* computed character by character.                                        *)
(***************************************************************************)
EXTENDS Integers, Sequences, FiniteSets, TLC

VARIABLES
    cfg,          \* the arguments of New: [network, address, port]
    fs,           \* the filesystem paths that exist
    pc,           \* position of the main task
    h,            \* the GrpcServer handle's fields
    listener,     \* the net.Listener: [status, net, addr]
    regCalls,     \* number of RegisterHttpProxyServer calls made so far
    reg,          \* arguments and locals of the latest RegisterHttpProxyServer call
    sigInstalled, \* signal.Notify has been called
    sigSent,      \* signals the environment has delivered so far
    cSig,         \* the buffered signal channel
    sd,           \* position of the postDestroy goroutine
    gw,           \* position of the runHttpProxy goroutine
    exitBy,       \* "running", or the operation that terminated the process
    exitCode      \* the process exit code once terminated

vars == <<cfg, fs, pc, h, listener, regCalls, reg, sigInstalled,
          sigSent, cSig, sd, gw, exitBy, exitCode>>

----------------------------------------------------------------------------
(* Bounds of the model *)

MaxPort == 2
MaxNegPort == 2
MaxHandlers == 2
MaxRegs == 2
MaxSignals == 2

(* Program constants *)

UnsetPort == -1
SigChanCap == 1

----------------------------------------------------------------------------
(* Strings *)

unix == <<"u", "n", "i", "x">>
tcp == <<"t", "c", "p">>

supportedNetworks == <<unix, tcp>>

Networks ==
    { <<>>, unix, tcp, <<"T", "C", "P">>, <<"U", "n", "i", "x">>, <<"u", "d", "p">> }

Hosts == {"", "127.0.0.1"}
SockPath == "/tmp/test.sock"
Addresses == Hosts \cup {SockPath}

Ports == UnsetPort .. MaxPort
PortArgs == (0 - MaxNegPort) .. MaxPort

LowerRune(c) ==
    CASE c = "T" -> "t"
      [] c = "C" -> "c"
      [] c = "P" -> "p"
      [] c = "U" -> "u"
      [] c = "N" -> "n"
      [] c = "I" -> "i"
      [] c = "X" -> "x"
      [] c = "D" -> "d"
      [] OTHER -> c

ToLower(s) == [i \in 1 .. Len(s) |-> LowerRune(s[i])]

EqualFold(s, t) == ToLower(s) = ToLower(t)

Contains(list, x) == \E i \in 1 .. Len(list) : list[i] = x

\* fmt.Sprintf("%s:%d", address, port)
Sprintf(address, port) == address \o ":" \o ToString(port)

----------------------------------------------------------------------------
(* New *)

\* checkNetwork(network, fullAddress): TRUE when neither log.Fatal is reached.
\* Variant without the supportedNetworks test.
checkNetwork_NoSupportCheck(network, address) ==
    ~(Len(network) = 0 \/ address = "")

checkNetwork(network, address) ==
    /\ ~(Len(network) = 0 \/ address = "")
    /\ Contains(supportedNetworks, network)

\* net.Listen(network, host:port): whether it returns an error.  A tcp listen
\* needs a resolvable host and a port in 0..65535; a unix listen binds the
\* whole "address:port" string as a path, which must not exist yet.  envOk
\* is the environment's part (port in use, directory not writable).
ListenFails(network, host, port, path, envOk) ==
    CASE network = tcp -> ~(host \in Hosts /\ port >= 0 /\ port <= 65535) \/ ~envOk
      [] network = unix -> path \in fs \/ ~envOk
      [] OTHER -> TRUE

NoListener == [status |-> "none", net |-> <<>>, addr |-> ""]

NoHandle ==
    [Server |-> "nil", network |-> <<>>, address |-> "", port |-> 0,
     httpProxyMux |-> "nil", httpProxyPort |-> 0]

\* The struct literal New returns.
NewHandle(network, address, port) ==
    [Server |-> "grpcServer", network |-> network, address |-> address,
     port |-> port, httpProxyMux |-> "nil", httpProxyPort |-> UnsetPort]

Alive == exitBy = "running"

\* log.Fatal / log.Fatalf in operation `by`: the process exits non-zero.
Fatal(by) == exitBy' = by /\ exitCode' = 1

New ==
    /\ Alive
    /\ pc = "init"
    /\ LET fullAddress == Sprintf(cfg.address, cfg.port)
           lower == ToLower(cfg.network)
       IN IF ~checkNetwork(cfg.network, fullAddress)
          THEN /\ Fatal("checkNetwork")
               /\ pc' = "New"
               /\ UNCHANGED <<h, listener, fs>>
          ELSE \E envOk \in BOOLEAN :
                 IF ListenFails(lower, cfg.address, cfg.port, fullAddress, envOk)
                 THEN /\ Fatal("net.Listen")
                      /\ pc' = "New"
                      /\ listener' = [status |-> "failed", net |-> lower,
                                      addr |-> fullAddress]
                      /\ UNCHANGED <<h, fs>>
                 ELSE /\ listener' = [status |-> "open", net |-> lower,
                                      addr |-> fullAddress]
                      /\ fs' = IF lower = unix THEN fs \cup {fullAddress} ELSE fs
                      /\ h' = NewHandle(cfg.network, cfg.address, cfg.port)
                      /\ pc' = "ready"
                      /\ UNCHANGED <<exitBy, exitCode>>
    /\ UNCHANGED <<cfg, regCalls, reg, sigInstalled, sigSent, cSig,
                   sd, gw>>

----------------------------------------------------------------------------
(* RegisterHttpProxyServer *)

\* The ctx and opts arguments and their defaults only travel to the handlers
\* and leave no trace on the handle; a handler's outcome stands for them.

\* The handler slice argument: a nil slice, or a slice of handlers, each of
\* which returns nil ("ok") or an error ("err") when invoked.
HandlerLists ==
    {[isNil |-> TRUE, fns |-> <<>>]} \cup
    {[isNil |-> FALSE, fns |-> f] :
        f \in UNION {[1 .. n -> {"ok", "err"}] : n \in 0 .. MaxHandlers}}

\* The mux argument: nil or a multiplexer of the caller's.
MuxArgs == {"nil", "userMux"}

\* runtime.NewServeMux() in the k-th call: a multiplexer no one else holds.
NewServeMux(k) == "freshMux" \o ToString(k)

NoCall ==
    [called |-> FALSE, handlers |-> [isNil |-> TRUE, fns |-> <<>>],
     mux |-> "nil", port |-> 0, checkedMux |-> "nil", invoked |-> 0,
     registered |-> 0]

\* httpProxyServerHandlerFuncSlice == nil || len(...) == 0
\* Variant testing only for a nil slice.
HandlersMissing_NilOnly(hs) == hs.isNil

HandlersMissing(hs) == hs.isNil \/ Len(hs.fns) = 0

\* pSelf.httpProxyPort = httpProxyPort; if it is -1, pSelf.port + 1
\* Variant defaulting to the primary port itself.
ProxyPortFor_NoIncrement(arg, port) == IF arg = UnsetPort THEN port ELSE arg

ProxyPortFor(arg, port) == IF arg = UnsetPort THEN port + 1 ELSE arg

\* checkedMux: the argument, or a fresh multiplexer when it is nil.
CheckedMux(mux, k) == IF mux = "nil" THEN NewServeMux(k) ELSE mux

\* pSelf.httpProxyMux = mux: the argument is stored, not checkedMux.
StoredMux(mux, checkedMux) == mux

\* Index of the first handler that returns an error, 0 when none does.
FirstErr(fns) ==
    IF \E i \in 1 .. Len(fns) : fns[i] = "err"
    THEN CHOOSE i \in 1 .. Len(fns) :
            /\ fns[i] = "err"
            /\ \A j \in 1 .. (i - 1) : fns[j] = "ok"
    ELSE 0

RegisterHttpProxyServer ==
    /\ Alive
    /\ pc = "ready"
    /\ regCalls < MaxRegs
    /\ regCalls' = regCalls + 1
    /\ \E hs \in HandlerLists, mux \in MuxArgs, port \in PortArgs :
         IF HandlersMissing(hs)
         THEN /\ Fatal("Register.empty")
              /\ pc' = "Register"
              /\ reg' = [NoCall EXCEPT !.called = TRUE, !.handlers = hs,
                                       !.mux = mux, !.port = port]
              /\ UNCHANGED h
         ELSE LET checkedMux == CheckedMux(mux, regCalls + 1)
                  e == FirstErr(hs.fns)
              IN /\ h' = [h EXCEPT
                            !.httpProxyPort = ProxyPortFor(port, h.port),
                            !.httpProxyMux = StoredMux(mux, checkedMux)]
                 /\ reg' = [called |-> TRUE, handlers |-> hs, mux |-> mux,
                            port |-> port, checkedMux |-> checkedMux,
                            invoked |-> IF e = 0 THEN Len(hs.fns) ELSE e,
                            registered |-> IF e = 0 THEN Len(hs.fns) ELSE e - 1]
                 /\ IF e # 0
                    THEN /\ Fatal("Register.handler")
                         /\ pc' = "Register"
                    ELSE /\ pc' = "ready"
                         /\ UNCHANGED <<exitBy, exitCode>>
    /\ UNCHANGED <<cfg, fs, listener, sigInstalled, sigSent, cSig, sd, gw>>

----------------------------------------------------------------------------
(* Run, on the main task *)

\* Server == nil check, make(chan os.Signal, 1), signal.Notify
RunNotify ==
    /\ Alive
    /\ pc = "ready"
    /\ IF h.Server = "nil"
       THEN /\ Fatal("Run")
            /\ pc' = "Run"
            /\ UNCHANGED sigInstalled
       ELSE /\ sigInstalled' = TRUE
            /\ pc' = "notified"
            /\ UNCHANGED <<exitBy, exitCode>>
    /\ UNCHANGED <<cfg, fs, h, listener, regCalls, reg, sigSent, cSig, sd, gw>>

\* go pSelf.postDestroy(cSig)
RunGoPostDestroy ==
    /\ Alive
    /\ pc = "notified"
    /\ sd' = "wait"
    /\ pc' = "proxy"
    /\ UNCHANGED <<cfg, fs, h, listener, regCalls, reg, sigInstalled, sigSent,
                   cSig, gw, exitBy, exitCode>>

\* httpProxyMux != nil && port != httpProxyPort && httpProxyPort > 0
\* Variant without the comparison against the primary port.
RunStartsProxy_NoPortCompare(hd) ==
    hd.httpProxyMux # "nil" /\ hd.httpProxyPort > 0

RunStartsProxy(hd) ==
    hd.httpProxyMux # "nil" /\ hd.port # hd.httpProxyPort /\ hd.httpProxyPort > 0

\* if ... { go pSelf.runHttpProxy() }
RunGoHttpProxy ==
    /\ Alive
    /\ pc = "proxy"
    /\ gw' = IF RunStartsProxy(h) THEN "spawned" ELSE gw
    /\ pc' = "serve"
    /\ UNCHANGED <<cfg, fs, h, listener, regCalls, reg, sigInstalled, sigSent,
                   cSig, sd, exitBy, exitCode>>

\* pSelf.Server.Serve(pSelf.listener) is entered: the accept loop.
RunServe ==
    /\ Alive
    /\ pc = "serve"
    /\ pc' = "Serve"
    /\ UNCHANGED <<cfg, fs, h, listener, regCalls, reg, sigInstalled, sigSent,
                   cSig, sd, gw, exitBy, exitCode>>

\* Accept fails on a listener closed by someone other than the server's own
\* Stop: Serve returns the error and Run calls log.Fatalf.
ServeFails ==
    /\ Alive
    /\ pc = "Serve"
    /\ listener.status = "closed"
    /\ Fatal("Serve")
    /\ UNCHANGED <<cfg, fs, pc, h, listener, regCalls, reg, sigInstalled,
                   sigSent, cSig, sd, gw>>

----------------------------------------------------------------------------
(* runHttpProxy, on the gateway goroutine *)

\* The guard, then http.ListenAndServe(address:httpProxyPort, mux), which
\* listens on tcp whatever the primary transport is.
runHttpProxy ==
    /\ Alive
    /\ gw = "spawned"
    /\ IF h.httpProxyMux = "nil" \/ h.httpProxyPort = UnsetPort
       THEN /\ gw' = "returned"
            /\ UNCHANGED <<exitBy, exitCode>>
       ELSE \E envOk \in BOOLEAN :
              IF ListenFails(tcp, h.address, h.httpProxyPort,
                             Sprintf(h.address, h.httpProxyPort), envOk)
              THEN /\ Fatal("runHttpProxy")
                   /\ UNCHANGED gw
              ELSE /\ gw' = "serving"
                   /\ UNCHANGED <<exitBy, exitCode>>
    /\ UNCHANGED <<cfg, fs, pc, h, listener, regCalls, reg, sigInstalled,
                   sigSent, cSig, sd>>

----------------------------------------------------------------------------
(* postDestroy, on the shutdown goroutine *)

\* sig := <-cSig blocks until the channel holds a signal.
\* Variant in which the receive does not block.
SignalReceivable_NonBlocking(ch) == TRUE

SignalReceivable(ch) == Len(ch) > 0

postDestroyReceive ==
    /\ Alive
    /\ sd = "wait"
    /\ SignalReceivable(cSig)
    /\ cSig' = IF Len(cSig) > 0 THEN Tail(cSig) ELSE cSig
    /\ sd' = "close"
    /\ UNCHANGED <<cfg, fs, pc, h, listener, regCalls, reg, sigInstalled,
                   sigSent, gw, exitBy, exitCode>>

\* pSelf.listener.Close(): closing a unix listener made by net.Listen also
\* unlinks the path it was bound to; closing twice is an error.
postDestroyClose ==
    /\ Alive
    /\ sd = "close"
    /\ IF listener.status # "open"
       THEN /\ Fatal("Close")
            /\ UNCHANGED <<listener, fs, sd>>
       ELSE /\ listener' = [listener EXCEPT !.status = "closed"]
            /\ fs' = IF listener.net = unix THEN fs \ {listener.addr} ELSE fs
            /\ sd' = IF EqualFold(unix, h.network) THEN "remove" ELSE "bye"
            /\ UNCHANGED <<exitBy, exitCode>>
    /\ UNCHANGED <<cfg, pc, h, regCalls, reg, sigInstalled, sigSent, cSig, gw>>

\* os.Remove(pSelf.address)
postDestroyRemove ==
    /\ Alive
    /\ sd = "remove"
    /\ IF h.address \in fs
       THEN /\ fs' = fs \ {h.address}
            /\ sd' = "bye"
            /\ UNCHANGED <<exitBy, exitCode>>
       ELSE /\ Fatal("Remove")
            /\ UNCHANGED <<fs, sd>>
    /\ UNCHANGED <<cfg, pc, h, listener, regCalls, reg, sigInstalled, sigSent,
                   cSig, gw>>

\* os.Exit(0)
postDestroyExit ==
    /\ Alive
    /\ sd = "bye"
    /\ exitBy' = "postDestroy"
    /\ exitCode' = 0
    /\ UNCHANGED <<cfg, fs, pc, h, listener, regCalls, reg, sigInstalled,
                   sigSent, cSig, sd, gw>>

----------------------------------------------------------------------------
(* The environment *)

\* A catchable termination signal (SIGINT, SIGTERM) reaches the process.
\* Before signal.Notify the default disposition kills it; afterwards the
\* runtime puts the signal on cSig without blocking, dropping it when the
\* buffer is full.
Signal ==
    /\ Alive
    /\ sigSent < MaxSignals
    /\ sigSent' = sigSent + 1
    /\ IF ~sigInstalled
       THEN /\ exitBy' = "signal"
            /\ exitCode' = 143
            /\ UNCHANGED cSig
       ELSE /\ cSig' = IF Len(cSig) < SigChanCap THEN Append(cSig, "sig") ELSE cSig
            /\ UNCHANGED <<exitBy, exitCode>>
    /\ UNCHANGED <<cfg, fs, pc, h, listener, regCalls, reg, sigInstalled, sd, gw>>

----------------------------------------------------------------------------

Init ==
    /\ cfg \in [network : Networks, address : Addresses, port : Ports]
    /\ fs \in SUBSET {SockPath}
    /\ pc = "init"
    /\ h = NoHandle
    /\ listener = NoListener
    /\ regCalls = 0
    /\ reg = NoCall
    /\ sigInstalled = FALSE
    /\ sigSent = 0
    /\ cSig = <<>>
    /\ sd = "none"
    /\ gw = "none"
    /\ exitBy = "running"
    /\ exitCode = 0

Next ==
    \/ New
    \/ RegisterHttpProxyServer
    \/ RunNotify
    \/ RunGoPostDestroy
    \/ RunGoHttpProxy
    \/ RunServe
    \/ ServeFails
    \/ runHttpProxy
    \/ postDestroyReceive
    \/ postDestroyClose
    \/ postDestroyRemove
    \/ postDestroyExit
    \/ Signal

Spec == Init /\ [][Next]_vars

----------------------------------------------------------------------------
(* Properties *)

HandleReturned == pc \notin {"init", "New"}

ShutdownActed ==
    \/ sd \in {"remove", "bye"}
    \/ listener.status = "closed"
    \/ exitBy \in {"Close", "Remove", "postDestroy"}

\* C1: once Run has been called on a handle built from a valid tcp
\* configuration and postDestroy has taken a termination signal off the
\* channel, a process that has terminated (no gateway task involved) has
\* closed its listener and exited with code 0, whatever the interleaving of
\* postDestroy with the main task in Serve.
C1_SignalExitsZero ==
    (/\ ~Alive
     /\ h.network = tcp
     /\ h.address # ""
     /\ h.port > 0
     /\ gw = "none"
     /\ sd \in {"close", "remove", "bye"})
    => (exitCode = 0 /\ listener.status = "closed")

\* C2: for a valid unix configuration, the path shutdown removes is the
\* path the listener was bound to, the removal does not fail, and once it
\* is done the socket file is gone.
C2_RemovesBoundPath ==
    (/\ h.network = unix
     /\ h.address = SockPath
     /\ h.port > 0
     /\ sd \in {"remove", "bye"})
    => (/\ h.address = listener.addr
        /\ exitBy # "Remove"
        /\ (sd = "bye" => listener.addr \notin fs))

\* C3: a transport kind equal to unix or tcp ignoring letter case, with a
\* non-empty address, passes New's validation and reaches the bind.
C3_KindCaseInsensitive ==
    (/\ pc # "init"
     /\ (EqualFold(cfg.network, unix) \/ EqualFold(cfg.network, tcp))
     /\ cfg.address # ""
     /\ cfg.port > 0)
    => (exitBy # "checkNetwork" /\ listener.status # "none")

\* C4: with a supported transport kind and an empty address or a
\* non-positive port, New ends in a fatal configuration error and no bind
\* is attempted.
C4_EmptyAddressOrBadPortFatal ==
    (/\ pc # "init"
     /\ cfg.network \in {unix, tcp}
     /\ (cfg.address = "" \/ cfg.port <= 0))
    => (exitBy = "checkNetwork" /\ exitCode # 0 /\ listener.status = "none")

\* C5: after RegisterHttpProxyServer with a non-empty handler list, every
\* handler succeeding and a nil multiplexer, the handle stores the fresh
\* multiplexer the handlers were registered on, and a later Run with a
\* positive gateway port different from the primary port starts the gateway.
C5_FreshMuxStored ==
    (/\ reg.called
     /\ h.address # ""
     /\ h.port > 0
     /\ reg.mux = "nil"
     /\ Len(reg.handlers.fns) > 0
     /\ \A i \in 1 .. Len(reg.handlers.fns) : reg.handlers.fns[i] = "ok")
    => (/\ reg.checkedMux # "nil"
        /\ reg.registered = Len(reg.handlers.fns)
        /\ h.httpProxyMux = reg.checkedMux
        /\ ((pc \in {"serve", "Serve"} /\ h.httpProxyPort > 0
                /\ h.httpProxyPort # h.port) => gw # "none"))

\* C6: the gateway task exists only if a multiplexer is stored, the stored
\* gateway port is positive and it differs from the primary port; Run's
\* gateway step starts the task exactly in that case, raises no fatal error
\* and always goes on to the primary accept loop; and a gateway fatal error
\* happens only in that case.
C6_GatewayOnlyWhenConfigured ==
    /\ [](gw # "none" =>
            (h.httpProxyMux # "nil" /\ h.httpProxyPort > 0
                /\ h.httpProxyPort # h.port))
    /\ [](exitBy = "runHttpProxy" =>
            (h.httpProxyMux # "nil" /\ h.httpProxyPort > 0
                /\ h.httpProxyPort # h.port))
    /\ [][(pc = "proxy" /\ pc' # "proxy") =>
            (/\ pc' = "serve"
             /\ exitBy' = "running"
             /\ (gw' # "none") =
                    (h.httpProxyMux # "nil" /\ h.httpProxyPort > 0
                        /\ h.httpProxyPort # h.port))]_vars
    /\ [][(pc = "serve" /\ pc' # "serve") => pc' = "Serve"]_vars

C6_GatewaySkipped ==
    /\ pc = "Serve"
    /\ gw = "none"
    /\ h.httpProxyMux # "nil"
    /\ h.httpProxyPort = h.port

\* C7: the handle returned by New holds gateway port -1 until a
\* registration; after RegisterHttpProxyServer with a non-empty handler list
\* the stored gateway port is the primary port plus one when the argument
\* was -1, and the argument itself otherwise.
C7_ProxyPortDefault ==
    /\ (HandleReturned /\ ~reg.called) => h.httpProxyPort = -1
    /\ (reg.called /\ Len(reg.handlers.fns) > 0) =>
            h.httpProxyPort = IF reg.port = -1 THEN h.port + 1 ELSE reg.port

C7_PortDefaulted ==
    /\ reg.called
    /\ Len(reg.handlers.fns) > 0
    /\ reg.port = -1
    /\ h.port > 0
    /\ h.httpProxyPort = h.port + 1

\* C8: a RegisterHttpProxyServer call with a nil or empty handler list ends
\* the process fatally with no handler invoked, the handle's gateway port
\* and multiplexer as they were, and no server serving.
C8_EmptyHandlersFatal ==
    [][(/\ regCalls' = regCalls + 1
        /\ (reg'.handlers.isNil \/ Len(reg'.handlers.fns) = 0))
       => (/\ exitBy' = "Register.empty"
           /\ exitCode' # 0
           /\ reg'.invoked = 0
           /\ h' = h
           /\ pc' \notin {"serve", "Serve"}
           /\ gw' = "none"
           /\ sd' = "none")]_vars

C8_EmptyListAfterRegistration ==
    /\ exitBy = "Register.empty"
    /\ ~reg.handlers.isNil
    /\ h.httpProxyMux = "userMux"
    /\ h.httpProxyPort > 0

\* C9: for a transport kind other than unix and tcp, New ends the process
\* fatally in validation: no bind is attempted and no handle is returned.
C9_UnsupportedKindFatal ==
    (pc # "init" /\ cfg.network \notin {unix, tcp})
    => (/\ exitBy = "checkNetwork"
        /\ exitCode # 0
        /\ listener.status = "none"
        /\ ~HandleReturned
        /\ h = NoHandle)

C9_UdpRejected ==
    /\ cfg.network = <<"u", "d", "p">>
    /\ cfg.address # ""
    /\ pc = "New"
    /\ exitBy = "checkNetwork"

\* C10 (as claimed): the shutdown logic acts only after a signal has been
\* delivered and only once the main task is inside Serve.
C10_ShutdownOnlyInsideServe ==
    ShutdownActed => (sigSent > 0 /\ pc = "Serve")

\* C10 (amended): the shutdown logic acts only after a signal has been
\* delivered to the installed handler and after Run has started the
\* shutdown task on the bound listener; the main task may not yet be in
\* Serve.
C10_ShutdownAfterSignalAndSpawn ==
    (sd \in {"close", "remove", "bye"} \/ ShutdownActed)
    => (/\ sigSent > 0
        /\ sigInstalled
        /\ pc \in {"proxy", "serve", "Serve"}
        /\ listener.status \in {"open", "closed"})

C10_ShutdownBeforeServe ==
    /\ exitBy = "postDestroy"
    /\ pc \in {"proxy", "serve"}
    /\ listener.status = "closed"

====
